---- MODULE Spec2Model ----
(***************************************************************************)
(* ArchaeoScan: the broadcast hub (ConnectionManager of app/websocket.py), *)
(* its callers (the /ws endpoint, the ESP32 routes, the sensor route that  *)
(* dispatches from a worker thread) and the sensor simulation stream.      *)
(*                                                                         *)
(* Coroutines of the event loop interleave only at their await points, so  *)
(* each action below is one run of a coroutine from one await to the next. *)
(* The worker thread of send_sensor_data_from_thread runs beside the loop. *)
(*                                                                         *)
(* The second part is the radar engine (RadarProcessor of                  *)
(* app/services/radar_processing.py): its functions are pure, and each is  *)
(* applied once per behaviour to an input drawn from a bounded set.        *)
(***************************************************************************)
EXTENDS Integers, Sequences, FiniteSets, TLC

\* ---------------------------------------------------------------- bounds
MaxConns == 2
MaxMsgs == 1
MaxTasks == 2
MaxAppends == 102
MaxAmp == 50
MaxWidth == 12
MaxSurround == 10
MaxSignalLen == 5
MaxProfileLen == 8
MaxWorkers == 2
MaxSpectrumLen == 3

\* The calls of predict_material a behaviour holds.
MaxPredictions == 4

\* ------------------------------------------------------ program constants
buffer_size == 100
result_timeout == 1
NoTask == 0

Conns == 1..MaxConns
Msgs == 1..MaxMsgs
Tasks == 1..MaxTasks
Workers == 1..MaxWorkers

VARIABLES
    active_connections,  \* ConnectionManager.active_connections
    message_buffer,      \* ConnectionManager.message_buffer
    is_broadcasting,     \* ConnectionManager.is_broadcasting
    broadcast_task,      \* ConnectionManager.broadcast_task (NoTask or a task)
    loop,                \* ConnectionManager.loop: "None", "main" or "fresh"
    loop_closed,         \* the server's event loop has been closed
    next_msg,            \* payloads created so far (each has its own timestamp)
    bc,                  \* one broadcast coroutine per payload
    attempts,            \* send_text calls started, per connection and payload
    received,            \* send_text calls completed, per connection and payload
    tasks,               \* the _broadcast_loop tasks created so far
    stop_call,           \* the stop_broadcasting call suspended at its await
    stop_returned,       \* a stop_broadcasting call returned and no start since
    sim,                 \* the simulate_sensor_stream task
    thr,                 \* the worker thread in send_sensor_data_from_thread
    thread_result,       \* how the thread's call for a payload ended
    appended,            \* every payload handed to add_to_buffer, in order
    last_call,           \* the latest recorded call of connect or disconnect
    add_pc,              \* add_to_buffer as other threads see it: between its lines
    observed_len,        \* len(message_buffer) as a reader last saw it
    rad,                 \* the latest call of a RadarProcessor method
    clf,                 \* the MaterialClassifier instance and the threads in it
    mat,                 \* the latest call of a MaterialClassifier function
    pres,                \* the latest call of a PreservationService method
    subs                 \* NotificationsService.websockets and a broadcast over it

vars == <<active_connections, message_buffer, is_broadcasting, broadcast_task,
          loop, loop_closed, next_msg, bc, attempts, received, tasks,
          stop_call, stop_returned, sim, thr, thread_result, appended,
          last_call, add_pc, observed_len, rad, clf, mat, pres, subs>>

\* ConnectionManager's fields and the coroutines and threads that use them.
hub == <<active_connections, message_buffer, is_broadcasting, broadcast_task,
         loop, loop_closed, next_msg, bc, attempts, received, tasks,
         stop_call, stop_returned, sim, thr, thread_result, appended>>

\* What only the recorded calls, the buffer's readers and the radar engine touch.
off_hub == <<last_call, add_pc, observed_len, rad, clf, mat, pres, subs>>

\* The material classifier and the preservation service.
services == <<clf, mat, pres, subs>>

\* ------------------------------------------------------------- helpers
idle_bc == [st |-> "none", via |-> "none", on |-> "None",
            snap |-> {}, todo |-> {}, cur |-> {}, failed |-> {},
            successful_sends |-> 0]

LoopRunning == ~loop_closed

Alive(t) == tasks[t] \in {"running", "cancelling"}

AliveTasks == {t \in Tasks : Alive(t)}

CreatedTasks == {t \in Tasks : tasks[t] # "unborn"}

Last(s) == s[Len(s)]

Min(a, b) == IF a < b THEN a ELSE b

no_call == [op |-> "none", conn |-> 0, member |-> FALSE, raised |-> FALSE,
            flip |-> FALSE]

\* ------------------------------------------------------------ add_to_buffer
add_to_buffer_pop_last(buf, data) ==
    LET grown == Append(buf, data)
    IN  IF Len(grown) > buffer_size THEN SubSeq(grown, 1, Len(grown) - 1) ELSE grown

no_broadcast == [websockets |-> <<>>, pc |-> "idle", idx |-> 0, cur |-> 0,
                 broken |-> {}, registered |-> {}, delivered |-> {},
                 undisturbed |-> TRUE]

add_to_buffer(buf, data) ==
    LET grown == Append(buf, data)
    IN  IF Len(grown) > buffer_size THEN Tail(grown) ELSE grown

Init ==
    /\ active_connections = {}
    /\ message_buffer = <<>>
    /\ is_broadcasting = FALSE
    /\ broadcast_task = NoTask
    /\ loop \in {"None", "main"}
    /\ loop_closed = FALSE
    /\ next_msg = 0
    /\ bc = [m \in Msgs |-> idle_bc]
    /\ attempts = [p \in Conns \X Msgs |-> 0]
    /\ received = [p \in Conns \X Msgs |-> 0]
    /\ tasks = [t \in Tasks |-> "unborn"]
    /\ stop_call = NoTask
    /\ stop_returned = FALSE
    /\ sim = "none"
    /\ thr = [pc |-> "idle", msg |-> 0, waited |-> 0]
    /\ thread_result = [m \in Msgs |-> "none"]
    /\ appended = <<>>
    /\ last_call = no_call
    /\ add_pc = "idle"
    /\ observed_len = 0
    /\ rad = [fn |-> "none"]
    /\ clf = [is_trained |-> FALSE, trainings |-> 0, calls |-> 0,
              pc |-> [w \in Workers |-> "idle"]]
    /\ mat = [fn |-> "none"]
    /\ pres = [fn |-> "none"]
    /\ subs = no_broadcast

\* ------------------------------------------------------------- broadcast
\* `for connection in self.active_connections.copy()`: the loop walks a private
\* copy of the set, so a connect or disconnect at an await point cannot change
\* the set under the iterator.
copy(s) == s

set_changed_during_iteration_live(iterated, live) ==
    Cardinality(iterated) # Cardinality(live)

set_changed_during_iteration(iterated, live) == FALSE

\* What is left to visit after a send raised: both except clauses only record
\* the connection, and the loop goes on with the rest.
after_failure_abort(todo) == {}

after_failure(todo) == todo

\* The three things a finished send_sensor_data / broadcast leaves behind,
\* by entry point: only send_sensor_data calls add_to_buffer.
Completion(m, via, outcome) ==
    IF via = "sensor"
    THEN IF outcome = "done"
         THEN /\ message_buffer' = add_to_buffer(message_buffer, m)
              /\ appended' = Append(appended, m)
              /\ sim' = "ready"
         ELSE /\ UNCHANGED <<message_buffer, appended>>
              /\ sim' = "ended"
    ELSE UNCHANGED <<message_buffer, appended, sim>>

\* broadcast(), from its first line to its first await (or to its end when
\* nobody is connected).
broadcast_begin(m, via) ==
    LET snap == copy(active_connections)
    IN  IF snap = {}
        THEN /\ bc' = [bc EXCEPT ![m] = [idle_bc EXCEPT !.st = "done", !.via = via]]
             /\ UNCHANGED <<active_connections, attempts, received>>
             /\ Completion(m, via, "done")
        ELSE \E c \in snap :
             /\ bc' = [bc EXCEPT ![m] =
                          [idle_bc EXCEPT !.st = "sending", !.via = via,
                                          !.snap = snap,
                                          !.todo = snap \ {c}, !.cur = {c}]]
             /\ attempts' = [attempts EXCEPT ![<<c, m>>] = @ + 1]
             /\ UNCHANGED <<active_connections, received>>
             /\ IF via = "sensor"
                THEN /\ sim' = "in_send"
                     /\ UNCHANGED <<message_buffer, appended>>
                ELSE UNCHANGED <<message_buffer, appended, sim>>

\* broadcast(), resumed when `await connection.send_text(message)` returns or
\* raises: up to the next send, or through the clean-up to its end.
broadcast_resume(m, outcome) ==
    /\ LoopRunning
    /\ bc[m].st = "sending"
    /\ \E c \in bc[m].cur :
       LET ok == outcome = "ok"
           failed == IF ok THEN bc[m].failed ELSE bc[m].failed \cup {c}
           rest == IF ok THEN bc[m].todo ELSE after_failure(bc[m].todo)
           sends == IF ok THEN bc[m].successful_sends + 1
                          ELSE bc[m].successful_sends
       IN  /\ received' = [received EXCEPT ![<<c, m>>] = IF ok THEN @ + 1 ELSE @]
           /\ IF rest # {}
              THEN IF set_changed_during_iteration(bc[m].snap, active_connections)
                   THEN /\ bc' = [bc EXCEPT ![m].st = "raised", ![m].cur = {},
                                            ![m].failed = failed,
                                            ![m].successful_sends = sends]
                        /\ UNCHANGED <<active_connections, attempts>>
                        /\ Completion(m, bc[m].via, "raised")
                   ELSE \E n \in rest :
                        /\ bc' = [bc EXCEPT ![m].cur = {n}, ![m].todo = rest \ {n},
                                            ![m].failed = failed,
                                            ![m].successful_sends = sends]
                        /\ attempts' = [attempts EXCEPT ![<<n, m>>] = @ + 1]
                        /\ UNCHANGED <<active_connections, message_buffer,
                                       appended, sim>>
              ELSE /\ bc' = [bc EXCEPT ![m].st = "done", ![m].cur = {},
                                       ![m].todo = {}, ![m].failed = failed,
                                       ![m].successful_sends = sends]
                   /\ active_connections' = active_connections \ failed
                   /\ UNCHANGED attempts
                   /\ Completion(m, bc[m].via, "done")
    /\ UNCHANGED <<is_broadcasting, broadcast_task, loop, loop_closed, next_msg,
                   tasks, stop_call, stop_returned, thr, thread_result>>
    /\ UNCHANGED off_hub

\* The ESP32 routes: `await manager.broadcast(json.dumps(...))`.
receive_esp32_data ==
    /\ LoopRunning
    /\ next_msg < MaxMsgs
    /\ next_msg' = next_msg + 1
    /\ broadcast_begin(next_msg + 1, "direct")
    /\ UNCHANGED <<is_broadcasting, broadcast_task, loop, loop_closed, tasks,
                   stop_call, stop_returned, thr, thread_result>>
    /\ UNCHANGED off_hub

\* ------------------------------------------------------ connect / disconnect
\* Every /ws request brings a new WebSocket object. The model reuses the name
\* of an unregistered one for it only when no running broadcast still holds
\* the old object in its copy.
NotHeldStale(c) ==
    \A m \in Msgs :
        bc[m].st = "sending" => c \notin bc[m].snap \ active_connections

connect_toggle(c) ==
    /\ active_connections' = IF c \in active_connections
                              THEN active_connections \ {c}
                              ELSE active_connections \cup {c}
    /\ loop' = "main"

\* connect() after its `await websocket.accept()`: set.add, then the loop.
connect(c) ==
    /\ active_connections' = active_connections \cup {c}
    /\ loop' = "main"

\* `self.active_connections.discard(websocket)`: set.discard removes the
\* element if it is there and never raises (set.remove raises KeyError when it
\* is not).
discard(s, c) == s \ {c}

remove_raises(s, c) == c \notin s

discard_raises(s, c) == FALSE

disconnect(c) ==
    /\ LoopRunning
    /\ active_connections' = discard(active_connections, c)
    /\ UNCHANGED <<message_buffer, is_broadcasting, broadcast_task, loop,
                   loop_closed, next_msg, bc, attempts, received, tasks, stop_call,
                   stop_returned, sim, thr, thread_result, appended>>
    /\ UNCHANGED off_hub

\* The /ws endpoint up to its receive loop. `manager.start_broadcasting()` is
\* called there without await: the coroutine object is dropped and its body
\* never runs, so only the simulation task is created.
websocket_endpoint(c) ==
    /\ LoopRunning
    /\ NotHeldStale(c)
    /\ connect(c)
    /\ sim' = IF ~is_broadcasting /\ sim \in {"none", "ended"}
              THEN "ready" ELSE sim
    /\ UNCHANGED <<message_buffer, is_broadcasting, broadcast_task, loop_closed,
                   next_msg, bc, attempts, received, tasks, stop_call,
                   stop_returned, thr, thread_result, appended>>
    /\ UNCHANGED off_hub

\* ------------------------------------------- connect / disconnect, recorded
\* A call of ConnectionManager.connect on any WebSocket, registered or not.
\* `await websocket.accept()` comes first and may raise (Starlette refuses a
\* second accept of the same socket with RuntimeError): then nothing is added.
connect_call(c) ==
    /\ LoopRunning
    /\ NotHeldStale(c)
    /\ \E accept \in {"ok", "RuntimeError"} :
       /\ IF accept = "ok" THEN connect(c)
                           ELSE UNCHANGED <<active_connections, loop>>
       /\ last_call' = [op |-> "connect", conn |-> c,
                        member |-> c \in active_connections,
                        raised |-> accept # "ok", flip |-> ~last_call.flip]
    /\ UNCHANGED <<message_buffer, is_broadcasting, broadcast_task, loop_closed,
                   next_msg, bc, attempts, received, tasks, stop_call,
                   stop_returned, sim, thr, thread_result, appended>>
    /\ UNCHANGED <<add_pc, observed_len, rad>>
    /\ UNCHANGED services

\* A call of ConnectionManager.disconnect on any WebSocket, registered or not.
disconnect_call(c) ==
    /\ LoopRunning
    /\ active_connections' = discard(active_connections, c)
    /\ last_call' = [op |-> "disconnect", conn |-> c,
                     member |-> c \in active_connections,
                     raised |-> discard_raises(active_connections, c),
                     flip |-> ~last_call.flip]
    /\ UNCHANGED <<message_buffer, is_broadcasting, broadcast_task, loop,
                   loop_closed, next_msg, bc, attempts, received, tasks, stop_call,
                   stop_returned, sim, thr, thread_result, appended>>
    /\ UNCHANGED <<add_pc, observed_len, rad>>
    /\ UNCHANGED services

\* -------------------------------------------------- start / stop broadcasting
start_guard_flag_only(flag, task) == ~flag

start_guard(flag, task) == ~flag /\ task = NoTask

start_broadcasting ==
    /\ LoopRunning
    /\ IF start_guard(is_broadcasting, broadcast_task)
       THEN \E t \in Tasks :
            /\ tasks[t] = "unborn"
            /\ \A u \in Tasks : u < t => tasks[u] # "unborn"
            /\ is_broadcasting' = TRUE
            /\ broadcast_task' = t
            /\ tasks' = [tasks EXCEPT ![t] = "running"]
            /\ stop_returned' = FALSE
       ELSE UNCHANGED <<is_broadcasting, broadcast_task, tasks, stop_returned>>
    /\ UNCHANGED <<active_connections, message_buffer, loop, loop_closed,
                   next_msg, bc, attempts, received, stop_call, sim, thr,
                   thread_result, appended>>
    /\ UNCHANGED off_hub

\* stop_broadcasting() up to `await self.broadcast_task`.
stop_broadcasting ==
    /\ LoopRunning
    /\ stop_call = NoTask
    /\ IF is_broadcasting /\ broadcast_task # NoTask
       THEN /\ is_broadcasting' = FALSE
            /\ tasks' = [tasks EXCEPT ![broadcast_task] =
                            IF Alive(broadcast_task) THEN "cancelling" ELSE @]
            /\ stop_call' = broadcast_task
       ELSE UNCHANGED <<is_broadcasting, tasks, stop_call>>
    /\ UNCHANGED <<active_connections, message_buffer, broadcast_task, loop,
                   loop_closed, next_msg, bc, attempts, received, stop_returned,
                   sim, thr, thread_result, appended>>
    /\ UNCHANGED off_hub

\* stop_broadcasting() from the await to its return.
stop_broadcasting_resume ==
    /\ LoopRunning
    /\ stop_call # NoTask
    /\ tasks[stop_call] = "done"
    /\ broadcast_task' = NoTask
    /\ stop_call' = NoTask
    /\ stop_returned' = TRUE
    /\ UNCHANGED <<active_connections, message_buffer, is_broadcasting, loop,
                   loop_closed, next_msg, bc, attempts, received, tasks, sim,
                   thr, thread_result, appended>>
    /\ UNCHANGED off_hub

\* One run of a _broadcast_loop task that ends it: CancelledError raised at the
\* sleep, or the loop condition found false.
broadcast_loop(t) ==
    /\ LoopRunning
    /\ Alive(t)
    /\ tasks[t] = "cancelling" \/ ~is_broadcasting
    /\ tasks' = [tasks EXCEPT ![t] = "done"]
    /\ UNCHANGED <<active_connections, message_buffer, is_broadcasting,
                   broadcast_task, loop, loop_closed, next_msg, bc, attempts,
                   received, stop_call, stop_returned, sim, thr, thread_result,
                   appended>>
    /\ UNCHANGED off_hub

\* ------------------------------------------------- simulate_sensor_stream
\* The top of `while manager.is_broadcasting:` through send_sensor_data up to
\* the first await of its broadcast.
simulate_sensor_stream ==
    /\ LoopRunning
    /\ sim = "ready"
    /\ IF is_broadcasting
       THEN /\ next_msg < MaxMsgs
            /\ next_msg' = next_msg + 1
            /\ broadcast_begin(next_msg + 1, "sensor")
       ELSE /\ sim' = "ended"
            /\ UNCHANGED <<active_connections, message_buffer, next_msg, bc,
                           attempts, received, appended>>
    /\ UNCHANGED <<is_broadcasting, broadcast_task, loop, loop_closed, tasks,
                   stop_call, stop_returned, thr, thread_result>>
    /\ UNCHANGED off_hub

\* --------------------------------------------- send_sensor_data_from_thread
\* future.result(timeout=1.0): the wait is over once a second has passed.
timed_out_never(waited) == FALSE

timed_out(waited) == waited >= result_timeout

\* The call up to future.result(): the loop lookup when none is stored, then
\* run_coroutine_threadsafe, which is outside the try block.
send_sensor_data_from_thread ==
    /\ thr.pc = "idle"
    /\ next_msg < MaxMsgs
    /\ next_msg' = next_msg + 1
    /\ LET m == next_msg + 1
       IN  \E found \in {"RuntimeError", "fresh"} :
           LET target == IF loop = "None" THEN found ELSE loop
           IN  IF target = "RuntimeError"
               THEN /\ thread_result' = [thread_result EXCEPT ![m] = "no_loop"]
                    /\ UNCHANGED <<loop, bc, thr>>
               ELSE /\ loop' = target
                    /\ IF target = "main" /\ loop_closed
                       THEN /\ thread_result' = [thread_result EXCEPT ![m] = "raised"]
                            /\ UNCHANGED <<bc, thr>>
                       ELSE /\ bc' = [bc EXCEPT ![m] =
                                        [idle_bc EXCEPT !.st = "scheduled",
                                                        !.via = "thread",
                                                        !.on = target]]
                            /\ thr' = [pc |-> "waiting", msg |-> m, waited |-> 0]
                            /\ UNCHANGED thread_result
    /\ UNCHANGED <<active_connections, message_buffer, is_broadcasting,
                   broadcast_task, loop_closed, attempts, received, tasks,
                   stop_call, stop_returned, sim, appended>>
    /\ UNCHANGED off_hub

\* The loop runs the callback of run_coroutine_threadsafe: broadcast starts.
run_scheduled(m) ==
    /\ LoopRunning
    /\ bc[m].st = "scheduled"
    /\ bc[m].on = "main"
    /\ broadcast_begin(m, "thread")
    /\ UNCHANGED <<is_broadcasting, broadcast_task, loop, loop_closed, next_msg,
                   tasks, stop_call, stop_returned, thr, thread_result>>
    /\ UNCHANGED off_hub

\* A second passes while the thread is blocked in future.result().
tick ==
    /\ thr.pc = "waiting"
    /\ thr.waited < result_timeout
    /\ thr' = [thr EXCEPT !.waited = @ + 1]
    /\ UNCHANGED <<active_connections, message_buffer, is_broadcasting,
                   broadcast_task, loop, loop_closed, next_msg, bc, attempts,
                   received, tasks, stop_call, stop_returned, sim,
                   thread_result, appended>>
    /\ UNCHANGED off_hub

\* future.result() returns the broadcast's result or re-raises its exception,
\* which the except clause logs.
thread_result_ready ==
    /\ thr.pc = "waiting"
    /\ bc[thr.msg].st \in {"done", "raised"}
    /\ thread_result' = [thread_result EXCEPT ![thr.msg] =
                            IF bc[thr.msg].st = "done" THEN "ok" ELSE "failed"]
    /\ thr' = [thr EXCEPT !.pc = "idle"]
    /\ UNCHANGED <<active_connections, message_buffer, is_broadcasting,
                   broadcast_task, loop, loop_closed, next_msg, bc, attempts,
                   received, tasks, stop_call, stop_returned, sim, appended>>
    /\ UNCHANGED off_hub

\* future.result() raises TimeoutError, which the except clause logs; the
\* future is not cancelled.
thread_timeout ==
    /\ thr.pc = "waiting"
    /\ bc[thr.msg].st \notin {"done", "raised"}
    /\ timed_out(thr.waited)
    /\ thread_result' = [thread_result EXCEPT ![thr.msg] = "timeout"]
    /\ thr' = [thr EXCEPT !.pc = "idle"]
    /\ UNCHANGED <<active_connections, message_buffer, is_broadcasting,
                   broadcast_task, loop, loop_closed, next_msg, bc, attempts,
                   received, tasks, stop_call, stop_returned, sim, appended>>
    /\ UNCHANGED off_hub

\* The server shuts down: its event loop is closed.
loop_close ==
    /\ ~loop_closed
    /\ loop_closed' = TRUE
    /\ UNCHANGED <<active_connections, message_buffer, is_broadcasting,
                   broadcast_task, loop, next_msg, bc, attempts, received,
                   tasks, stop_call, stop_returned, sim, thr, thread_result,
                   appended>>
    /\ UNCHANGED off_hub

\* A caller appends the next frame (frames carry their own timestamp, so no
\* two are equal): `self.add_to_buffer(json_data)`.
add_to_buffer_call ==
    /\ Len(appended) < MaxAppends
    /\ LET data == Len(appended) + 1
       IN  /\ message_buffer' = add_to_buffer(message_buffer, data)
           /\ appended' = Append(appended, data)
    /\ UNCHANGED <<active_connections, is_broadcasting, broadcast_task, loop,
                   loop_closed, next_msg, bc, attempts, received, tasks,
                   stop_call, stop_returned, sim, thr, thread_result>>
    /\ UNCHANGED off_hub

\* ------------------------------------------ add_to_buffer beside a reader
\* add_to_buffer takes no lock. Its two statements are one step for the other
\* coroutines of the loop (there is no await between them), and two steps for
\* any other thread, which the interpreter may schedule between them.
\* `self.message_buffer.append(data)`
add_to_buffer_append ==
    /\ add_pc = "idle"
    /\ Len(appended) < MaxAppends
    /\ LET data == Len(appended) + 1
       IN  /\ message_buffer' = Append(message_buffer, data)
           /\ appended' = Append(appended, data)
    /\ add_pc' = "appended"
    /\ UNCHANGED <<active_connections, is_broadcasting, broadcast_task, loop,
                   loop_closed, next_msg, bc, attempts, received, tasks,
                   stop_call, stop_returned, sim, thr, thread_result>>
    /\ UNCHANGED <<last_call, observed_len, rad>>
    /\ UNCHANGED services

\* `if len(self.message_buffer) > self.buffer_size: self.message_buffer.pop(0)`
add_to_buffer_evict ==
    /\ add_pc = "appended"
    /\ message_buffer' = IF Len(message_buffer) > buffer_size
                         THEN Tail(message_buffer) ELSE message_buffer
    /\ add_pc' = "idle"
    /\ UNCHANGED <<active_connections, is_broadcasting, broadcast_task, loop,
                   loop_closed, next_msg, bc, attempts, received, tasks,
                   stop_call, stop_returned, sim, thr, thread_result, appended>>
    /\ UNCHANGED <<last_call, observed_len, rad>>
    /\ UNCHANGED services

\* A coroutine of the loop reads the buffer: it runs only while no other
\* coroutine is between two of its awaits.
task_reads_buffer ==
    /\ add_pc = "idle"
    /\ observed_len' = Len(message_buffer)
    /\ UNCHANGED <<active_connections, message_buffer, is_broadcasting,
                   broadcast_task, loop, loop_closed, next_msg, bc, attempts,
                   received, tasks, stop_call, stop_returned, sim, thr,
                   thread_result, appended>>
    /\ UNCHANGED <<last_call, add_pc, rad>>
    /\ UNCHANGED services

\* Another thread (a route handler of the thread pool) reads the buffer.
thread_reads_buffer ==
    /\ observed_len' = Len(message_buffer)
    /\ UNCHANGED <<active_connections, message_buffer, is_broadcasting,
                   broadcast_task, loop, loop_closed, next_msg, bc, attempts,
                   received, tasks, stop_call, stop_returned, sim, thr,
                   thread_result, appended>>
    /\ UNCHANGED <<last_call, add_pc, rad>>
    /\ UNCHANGED services

\* ================================================================ radar
\* RadarProcessor (app/services/radar_processing.py). Amplitudes and samples are
\* counted in steps of 1/AmpScale and confidences in steps of 1/ConfScale, so
\* that every threshold of the code (0.1 ... 0.95) and every product by 0.5, 1.1
\* and 1.2 is a whole number of steps.
AmpScale == 20

ConfScale == 10 * AmpScale

Amplitudes == (0 - MaxAmp)..MaxAmp

Widths == 0..MaxWidth

\* The sample values signals and profiles are made of: -0.8, 0, 0.3 and 0.8.
Samples == {0 - 16, 0, 6, 16}

Abs(x) == IF x < 0 THEN 0 - x ELSE x

\* The sample values the longer profiles are made of: 0, 0.3 and 0.8.
ProfileSamples == {0, 6, 16}

SeqsUpTo(n, values) == UNION {[1..len -> values] : len \in 0..n}

RECURSIVE Sum(_)
Sum(seq) == IF seq = <<>> THEN 0 ELSE Head(seq) + Sum(Tail(seq))

Max(a, b) == IF a > b THEN a ELSE b

\* ------------------------------------------------------- classify_anomaly
abs_amplitude_signed(a) == a

\* `abs_amplitude = abs(reflection_amplitude)`
abs_amplitude(a) == IF a < 0 THEN 0 - a ELSE a

mostly_quiet_at_least(n, quiet) == 10 * quiet >= 7 * n

\* `len([s for s in surrounding_signals if abs(s) < 0.1]) >
\*  len(surrounding_signals) * 0.7`, for n surrounding samples of which `quiet`
\* are below the noise threshold.
mostly_quiet(n, quiet) == 10 * quiet > 7 * n

\* The rule ladder, first match wins; the depth argument is not used.
classify_anomaly(a, w, n, quiet) ==
    LET mag == abs_amplitude(a)
    IN  IF 10 * mag > 7 * AmpScale /\ w < 5
        THEN [type |-> "metal",
              confidence |-> Min((95 * ConfScale) \div 100, 10 * mag)]
        ELSE IF 10 * mag > 3 * AmpScale /\ 10 * mag < 7 * AmpScale /\ w > 8
        THEN [type |-> "stone",
              confidence |-> Min((85 * ConfScale) \div 100, 11 * mag)]
        ELSE IF 10 * mag > 2 * AmpScale /\ 10 * mag < 5 * AmpScale /\ w > 10
        THEN [type |-> "organic",
              confidence |-> Min((75 * ConfScale) \div 100, 12 * mag)]
        ELSE IF 10 * mag < 2 * AmpScale /\ mostly_quiet(n, quiet)
        THEN [type |-> "void", confidence |-> (70 * ConfScale) \div 100]
        ELSE [type |-> "unknown",
              confidence |-> Max((10 * ConfScale) \div 100, 5 * mag)]

\* A caller classifies one reflection (the function keeps no state: one call
\* per behaviour covers them all).
classify_anomaly_call ==
    /\ rad.fn = "none"
    /\ \E a \in Amplitudes : \E w \in Widths :
       \E n \in 0..MaxSurround : \E quiet \in 0..n :
          LET result == classify_anomaly(a, w, n, quiet)
          IN  rad' = [fn |-> "classify_anomaly", amplitude |-> a, width |-> w,
                      n |-> n, quiet |-> quiet, type |-> result.type,
                      confidence |-> result.confidence]
    /\ UNCHANGED hub
    /\ UNCHANGED <<last_call, add_pc, observed_len>>
    /\ UNCHANGED services

\* -------------------------------------------------- estimate_signal_width
\* Indices are the code's (from 0); sample i of a signal s is s[i + 1].
\* `abs(signal[i]) > threshold` with threshold = abs(peak_value) * 0.5
above_threshold(sig, i, peak_idx) == 2 * Abs(sig[i + 1]) > Abs(sig[peak_idx + 1])

width_of_swapped(left_edge, right_edge) == left_edge - right_edge

\* `return right_edge - left_edge`
width_of(left_edge, right_edge) == right_edge - left_edge

\* The call, up to the first test of the left loop.
estimate_signal_width_call ==
    /\ rad.fn = "none"
    /\ \E len \in 1..MaxSignalLen : \E sig \in [1..len -> Samples] :
       \E peak_idx \in 0..(len - 1) :
          rad' = [fn |-> "estimate_signal_width", signal |-> sig,
                  peak_idx |-> peak_idx, pc |-> "left", left_edge |-> peak_idx,
                  right_edge |-> peak_idx, width |-> 0]
    /\ UNCHANGED hub
    /\ UNCHANGED <<last_call, add_pc, observed_len>>
    /\ UNCHANGED services

\* One test of `while left_edge > 0 and abs(signal[left_edge]) > threshold`.
left_edge_step ==
    /\ rad.fn = "estimate_signal_width"
    /\ rad.pc = "left"
    /\ IF rad.left_edge > 0
          /\ above_threshold(rad.signal, rad.left_edge, rad.peak_idx)
       THEN rad' = [rad EXCEPT !.left_edge = @ - 1]
       ELSE rad' = [rad EXCEPT !.pc = "right", !.right_edge = rad.peak_idx]
    /\ UNCHANGED hub
    /\ UNCHANGED <<last_call, add_pc, observed_len>>
    /\ UNCHANGED services

\* One test of `while right_edge < len(signal) - 1 and abs(signal[right_edge])
\* > threshold`, and the return when it fails.
right_edge_step ==
    /\ rad.fn = "estimate_signal_width"
    /\ rad.pc = "right"
    /\ IF rad.right_edge < Len(rad.signal) - 1
          /\ above_threshold(rad.signal, rad.right_edge, rad.peak_idx)
       THEN rad' = [rad EXCEPT !.right_edge = @ + 1]
       ELSE rad' = [rad EXCEPT !.pc = "done",
                               !.width = width_of(rad.left_edge, rad.right_edge)]
    /\ UNCHANGED hub
    /\ UNCHANGED <<last_call, add_pc, observed_len>>
    /\ UNCHANGED services

\* --------------------------------------------------------- preprocess_signal
\* scipy.signal.filtfilt pads the signal on both sides by padlen = 3 * max(len(a),
\* len(b)) samples and raises ValueError when the signal is not longer than
\* that; an order-4 band-pass has 9 coefficients. The except clause then keeps
\* the signal as it was.
padlen == 3 * 9

bandpass_applies(len) == len > 8 /\ len > padlen

smoothing_applies_from_three(len) == len > 2

\* `if len(filtered_signal) > 5`
smoothing_applies(len) == len > 5

\* window_length = min(5, len), made odd, at least 3.
window_length(len) ==
    LET w == Min(5, len)
        odd == IF w % 2 = 0 THEN w - 1 ELSE w
    IN  IF odd < 3 THEN 3 ELSE odd

\* Processed samples are counted in steps of 1/SmoothScale of a sample step:
\* every output of the smoothing filter is a whole number of them.
SmoothScale == 70

\* savgol_filter(x, 5, 3): each output is the value at its place of the cubic
\* fitted by least squares to a window of 5 samples (the window around it, or
\* the first / last window for the two samples at each end). The fit removes
\* from the window its component along (1, -4, 6, -4, 1), whose square is 70.
savgol_filter(x) ==
    LET n == Len(x)
        C(j) == x[j] - 4 * x[j + 1] + 6 * x[j + 2] - 4 * x[j + 3] + x[j + 4]
    IN  [i \in 1..n |->
            IF i = 1 THEN SmoothScale * x[i] - C(1)
            ELSE IF i = 2 THEN SmoothScale * x[i] + 4 * C(1)
            ELSE IF i = n THEN SmoothScale * x[i] - C(n - 4)
            ELSE IF i = n - 1 THEN SmoothScale * x[i] + 4 * C(n - 4)
            ELSE SmoothScale * x[i] - 6 * C(i - 2)]

as_is(x) == [i \in 1..Len(x) |-> SmoothScale * x[i]]

\* For the lengths of this model the band-pass never gets through filtfilt, so
\* its output is not needed: `filtered_signal = signal_array`.
preprocess_signal(raw_signal) ==
    LET len == Len(raw_signal)
    IN  IF len < 3
        THEN [raised |-> "none", samples |-> as_is(raw_signal)]
        ELSE IF smoothing_applies(len)
        THEN IF len >= window_length(len)
             THEN IF 3 >= window_length(len)
                  THEN [raised |-> "ValueError", samples |-> <<>>]
                  ELSE [raised |-> "none", samples |-> savgol_filter(raw_signal)]
             ELSE [raised |-> "none", samples |-> as_is(raw_signal)]
        ELSE [raised |-> "none", samples |-> as_is(raw_signal)]

preprocess_signal_call ==
    /\ rad.fn = "none"
    /\ \E profile \in SeqsUpTo(MaxProfileLen, ProfileSamples) :
          /\ ~bandpass_applies(Len(profile))
          /\ LET out == preprocess_signal(profile)
             IN  rad' = [fn |-> "preprocess_signal", profile |-> profile,
                         raised |-> out.raised, samples |-> out.samples]
    /\ UNCHANGED hub
    /\ UNCHANGED <<last_call, add_pc, observed_len>>
    /\ UNCHANGED services

\* ----------------------------------------------------- analyze_depth_profile
\* np.gradient(f), doubled: the central difference f[i+1] - f[i-1] inside, twice
\* the one-sided difference at both ends. It raises ValueError for fewer than 2
\* samples.
gradient2(f) ==
    LET n == Len(f)
    IN  [i \in 1..n |->
            IF i = 1 THEN 2 * (f[2] - f[1])
            ELSE IF i = n THEN 2 * (f[n] - f[n - 1])
            ELSE f[i + 1] - f[i - 1]]

\* `abs_gradient > np.std(abs_gradient) * 1.5` for the sample at place i: with
\* S the sum and Q the sum of squares of the n values, std = sqrt(n*Q - S*S) / n.
significant(g, i) ==
    LET n == Len(g)
        S == Sum([k \in 1..n |-> Abs(g[k])])
        Q == Sum([k \in 1..n |-> g[k] * g[k]])
    IN  4 * n * n * g[i] * g[i] > 9 * (n * Q - S * S)

\* np.where(...)[0]: the code's indices (from 0) of the boundaries, ascending.
RECURSIVE boundaries_from(_, _)
boundaries_from(g, i) ==
    IF i > Len(g) THEN <<>>
    ELSE IF significant(g, i) THEN <<i - 1>> \o boundaries_from(g, i + 1)
    ELSE boundaries_from(g, i + 1)

next_start_after(boundary_idx) == boundary_idx + 1

\* `start_idx = boundary_idx`: the next layer starts at the boundary itself.
next_start(boundary_idx) == boundary_idx

\* The loop over the boundaries and the final layer. Depths are counted in
\* samples: every depth of the code is its index times depth_resolution.
RECURSIVE layers_from(_, _, _)
layers_from(bs, start_idx, len) ==
    IF bs = <<>>
    THEN IF start_idx < len
         THEN <<[start_depth |-> start_idx, end_depth |-> len - 1,
                 thickness |-> len - start_idx]>>
         ELSE <<>>
    ELSE LET boundary_idx == Head(bs)
         IN  IF boundary_idx - start_idx > 5
             THEN <<[start_depth |-> start_idx, end_depth |-> boundary_idx,
                     thickness |-> boundary_idx - start_idx]>>
                  \o layers_from(Tail(bs), next_start(boundary_idx), len)
             ELSE layers_from(Tail(bs), start_idx, len)

analyze_depth_profile(depth_profile) ==
    IF Len(depth_profile) < 2
    THEN [raised |-> "ValueError", layers |-> <<>>, boundaries |-> <<>>,
          total_depth |-> 0]
    ELSE LET boundaries == boundaries_from(gradient2(depth_profile), 1)
         IN  [raised |-> "none",
              layers |-> layers_from(boundaries, 0, Len(depth_profile)),
              boundaries |-> boundaries,
              total_depth |-> Len(depth_profile)]

\* analyze_depth_layers(depth_profile) only passes the profile on.
analyze_depth_profile_call ==
    /\ rad.fn = "none"
    /\ \E profile \in SeqsUpTo(MaxProfileLen, ProfileSamples) :
          LET out == analyze_depth_profile(profile)
          IN  rad' = [fn |-> "analyze_depth_profile", profile |-> profile,
                      raised |-> out.raised, layers |-> out.layers,
                      boundaries |-> out.boundaries,
                      total_depth |-> out.total_depth]
    /\ UNCHANGED hub
    /\ UNCHANGED <<last_call, add_pc, observed_len>>
    /\ UNCHANGED services

\* ---------------------------------------------------------- detect_anomalies
\* scipy.signal.find_peaks(x, height=h, distance=d). A peak is the middle of a
\* run of equal samples that is higher than the sample before it and the sample
\* after it, so the first and the last sample are never peaks; places are the
\* code's indices (from 0).
local_maxima(x) ==
    {(l + r) \div 2 - 1 : <<l, r>> \in
        {lr \in (2..(Len(x) - 1)) \X (2..(Len(x) - 1)) :
            /\ lr[1] <= lr[2]
            /\ \A k \in lr[1]..lr[2] : x[k] = x[lr[1]]
            /\ x[lr[1] - 1] < x[lr[1]]
            /\ x[lr[2] + 1] < x[lr[2]]}}

\* Peaks closer than d to a higher one are dropped, highest first; of two equal
\* ones the later is kept.
RECURSIVE select_by_distance(_, _, _)
select_by_distance(x, peaks, d) ==
    IF peaks = {} THEN {}
    ELSE LET top == CHOOSE p \in peaks : \A q \in peaks :
                        x[q + 1] < x[p + 1] \/ (x[q + 1] = x[p + 1] /\ q <= p)
         IN  {top} \cup
             select_by_distance(x, {q \in peaks : Abs(q - top) >= d}, d)

find_peaks(x, height, distance) ==
    select_by_distance(x, {p \in local_maxima(x) : x[p + 1] >= height}, distance)

\* signal_threshold = 0.3 and int(min_anomaly_separation / depth_resolution) = 5
detect_reflections(processed_signal) ==
    find_peaks([i \in 1..Len(processed_signal) |-> Abs(processed_signal[i])],
               (3 * AmpScale) \div 10, 5)

RECURSIVE walk_left(_, _, _)
walk_left(sig, edge, peak_idx) ==
    IF edge > 0 /\ above_threshold(sig, edge, peak_idx)
    THEN walk_left(sig, edge - 1, peak_idx) ELSE edge

RECURSIVE walk_right(_, _, _)
walk_right(sig, edge, peak_idx) ==
    IF edge < Len(sig) - 1 /\ above_threshold(sig, edge, peak_idx)
    THEN walk_right(sig, edge + 1, peak_idx) ELSE edge

estimate_signal_width(sig, peak_idx) ==
    width_of(walk_left(sig, peak_idx, peak_idx), walk_right(sig, peak_idx, peak_idx))

\* The anomaly of the reflection at index idx.
anomaly_at(sig, idx) ==
    LET start_idx == Max(0, idx - 10)
        end_idx == Min(Len(sig), idx + 10)
        quiet == Cardinality({k \in (start_idx + 1)..end_idx :
                                 10 * Abs(sig[k]) < AmpScale})
        result == classify_anomaly(sig[idx + 1], estimate_signal_width(sig, idx),
                                   end_idx - start_idx, quiet)
    IN  [type |-> result.type, confidence |-> result.confidence,
         amplitude |-> sig[idx + 1], depth |-> idx]

\* The anomalies of the reflections at index i and after.
RECURSIVE anomalies_from(_, _, _)
anomalies_from(sig, peaks, i) ==
    IF i >= Len(sig) THEN <<>>
    ELSE IF i \in peaks
    THEN <<anomaly_at(sig, i)>> \o anomalies_from(sig, peaks, i + 1)
    ELSE anomalies_from(sig, peaks, i + 1)

\* For a profile the conditioning returns as it is.
detect_anomalies(depth_profile) ==
    IF depth_profile = <<>>
    THEN [raised |-> "none", anomalies |-> <<>>]
    ELSE LET processed == preprocess_signal(depth_profile)
             sig == [i \in 1..Len(processed.samples) |->
                        processed.samples[i] \div SmoothScale]
         IN  IF processed.raised # "none"
             THEN [raised |-> processed.raised, anomalies |-> <<>>]
             ELSE [raised |-> "none",
                   anomalies |-> anomalies_from(sig, detect_reflections(sig), 0)]

\* process_radar_data(depth_profile) only reshapes the anomalies it gets.
detect_anomalies_call ==
    /\ rad.fn = "none"
    /\ \E profile \in SeqsUpTo(MaxSignalLen, Samples) :
          /\ ~smoothing_applies(Len(profile))
          /\ LET out == detect_anomalies(profile)
             IN  rad' = [fn |-> "detect_anomalies", profile |-> profile,
                         raised |-> out.raised, anomalies |-> out.anomalies]
    /\ UNCHANGED hub
    /\ UNCHANGED <<last_call, add_pc, observed_len>>
    /\ UNCHANGED services

\* ==================================================== material classifier
\* MaterialClassifier (app/services/material_classification.py).
\* The wavelengths spectra are made of: one in the fe_peak range (290, 310),
\* one in no range, one in the si_peak range (900, 1000) and one in the ch_peak
\* range (1600, 1700); and the raw intensities.
SpectrumWavelengths == {300, 500, 950, 1650}

SpectrumIntensities == {0, 1, 3}

RECURSIVE MaxOf(_)
MaxOf(seq) == IF Len(seq) = 1 THEN seq[1] ELSE Max(Head(seq), MaxOf(Tail(seq)))

RECURSIVE MinOf(_)
MinOf(seq) == IF Len(seq) = 1 THEN seq[1] ELSE Min(Head(seq), MinOf(Tail(seq)))

\* The normalised intensities are the fractions num[i] / den.
\* `(intensities - min) / (max - min)` or `np.zeros_like(intensities)`
normalise(intensities) ==
    LET hi == MaxOf(intensities)
        lo == MinOf(intensities)
    IN  IF hi # lo
        THEN [num |-> [i \in 1..Len(intensities) |-> intensities[i] - lo],
              den |-> hi - lo]
        ELSE [num |-> [i \in 1..Len(intensities) |-> 0], den |-> 1]

\* MaterialClassifier.find_peaks with threshold 0.3; places are the code's
\* indices (from 0).
find_spectrum_peaks(norm) ==
    {i \in 1..(Len(norm.num) - 2) :
        /\ norm.num[i + 1] > norm.num[i]
        /\ norm.num[i + 1] > norm.num[i + 2]
        /\ 10 * norm.num[i + 1] > 3 * norm.den}

\* `mask = (wavelengths >= start) & (wavelengths <= end)`, then
\* `np.max(intensities[mask])` when any place is in the mask: indexing an
\* array with a boolean mask of another length raises IndexError.
get_peak_intensity(wavelengths, norm, start, end) ==
    LET mask == {i \in 1..Len(wavelengths) :
                    wavelengths[i] >= start /\ wavelengths[i] <= end}
    IN  IF mask = {} THEN [raised |-> "none", value |-> 0]
        ELSE IF Len(wavelengths) # Len(norm.num)
        THEN [raised |-> "IndexError", value |-> 0]
        ELSE [raised |-> "none",
              value |-> CHOOSE v \in {norm.num[i] : i \in mask} :
                            \A i \in mask : norm.num[i] <= v]

\* The loop over reference_signatures looks for the keys fe_peak, si_peak and
\* ch_peak in each of the four signatures: twelve values, of which nine are kept.
extract_material_features(wavelengths, norm) ==
    LET fe == get_peak_intensity(wavelengths, norm, 290, 310)
        si == get_peak_intensity(wavelengths, norm, 900, 1000)
        ch == get_peak_intensity(wavelengths, norm, 1600, 1700)
    IN  IF fe.raised # "none" THEN [raised |-> fe.raised, values |-> <<>>]
        ELSE IF si.raised # "none" THEN [raised |-> si.raised, values |-> <<>>]
        ELSE IF ch.raised # "none" THEN [raised |-> ch.raised, values |-> <<>>]
        ELSE [raised |-> "none",
              values |-> <<fe.value, 0, 0, 0, si.value, 0, 0, 0, ch.value>>]

no_features == [total |-> 0, peak |-> 0, lowest |-> 0, peaks |-> {},
                slope |-> <<0, 1>>, material |-> <<>>, den |-> 1]

\* The feature vector, as the numerators over den of the mean's sum, the
\* maximum and the minimum, the set of peaks, the slope as a fraction and the
\* nine material features. `intensities.max()` raises ValueError for an empty
\* array.
preprocess_spectrum(wavelengths, intensities) ==
    IF intensities = <<>>
    THEN [raised |-> "ValueError", features |-> no_features]
    ELSE LET norm == normalise(intensities)
             material == extract_material_features(wavelengths, norm)
             slope == IF Len(wavelengths) > 1
                      THEN <<norm.num[Len(norm.num)] - norm.num[1],
                             norm.den * (wavelengths[Len(wavelengths)]
                                            - wavelengths[1])>>
                      ELSE <<0, 1>>
         IN  IF material.raised # "none"
             THEN [raised |-> material.raised, features |-> no_features]
             ELSE [raised |-> "none",
                   features |-> [total |-> Sum(norm.num),
                                 peak |-> MaxOf(norm.num),
                                 lowest |-> MinOf(norm.num),
                                 peaks |-> find_spectrum_peaks(norm),
                                 slope |-> slope,
                                 material |-> material.values,
                                 den |-> norm.den]]

\* classify_material / predict_material hand both lists to preprocess_spectrum
\* as they got them.
preprocess_spectrum_call ==
    /\ mat.fn = "none"
    /\ \E wavelengths \in SeqsUpTo(MaxSpectrumLen, SpectrumWavelengths) :
       \E intensities \in SeqsUpTo(MaxSpectrumLen, SpectrumIntensities) :
          LET out == preprocess_spectrum(wavelengths, intensities)
          IN  mat' = [fn |-> "preprocess_spectrum", wavelengths |-> wavelengths,
                      intensities |-> intensities, raised |-> out.raised,
                      features |-> out.features]
    /\ UNCHANGED hub
    /\ UNCHANGED <<last_call, add_pc, observed_len, rad, clf, pres, subs>>

\* --------------------------------------------------------- predict_material
\* The labels the classifier is trained on: `self.classes[:-1]`.
TrainedClasses == {"metal", "ceramic", "organic", "stone"}

\* The probability of the predicted class, in 1/ConfScale: the largest of four
\* probabilities that add up to 1 is at least 1/4.
BaseConfidences == {5 * k : k \in 10..40}

ContextKeys == {"temperature", "humidity", "depth"}

\* An environmental_context: the keys it holds and their values (0 for a key
\* it does not hold).  None and the empty dict are the context with no keys.
Contexts ==
    {c \in [keys : SUBSET ContextKeys,
            temperature : {0 - 11, 0 - 10, 0, 50, 51},
            humidity : {0, 90, 91},
            depth : {0, 100, 101}] :
        /\ ("temperature" \in c.keys) = (c.temperature # 0)
        /\ ("humidity" \in c.keys) = (c.humidity # 0)
        /\ ("depth" \in c.keys) = (c.depth # 0)}

\* Spectra that preprocess_spectrum accepts and spectra it raises on.
PredictSpectra ==
    {<< <<300, 500>>, <<1, 3>> >>, << <<500, 950, 1650>>, <<3, 0, 1>> >>,
     << <<300>>, <<0, 0>> >>, << <<>>, <<>> >>}

adjust_confidence_with_context(base_confidence, environmental_context) ==
    LET temperature_adjustment ==
            IF /\ "temperature" \in environmental_context.keys
               /\ \/ environmental_context.temperature > 50
                  \/ environmental_context.temperature < 0 - 10
            THEN 0 - (ConfScale \div 10) ELSE 0
        humidity_adjustment ==
            IF /\ "humidity" \in environmental_context.keys
               /\ environmental_context.humidity > 90
            THEN 0 - (ConfScale \div 20) ELSE 0
        depth_adjustment ==
            IF /\ "depth" \in environmental_context.keys
               /\ environmental_context.depth > 100
            THEN 0 - (ConfScale \div 20) ELSE 0
        adjusted_confidence ==
            base_confidence + temperature_adjustment + humidity_adjustment
                + depth_adjustment
    IN  Max(ConfScale \div 20, Min(ConfScale, adjusted_confidence))

\* `if environmental_context:` is false for None and for the empty dict.
adjusted(base_confidence, environmental_context) ==
    IF environmental_context.keys # {}
    THEN adjust_confidence_with_context(base_confidence, environmental_context)
    ELSE base_confidence

reliable_from(confidence) == 10 * confidence >= 6 * ConfScale

\* `is_reliable = confidence > 0.6`
reliable(confidence) == 10 * confidence > 6 * ConfScale

predict_material(predicted_class, base_confidence, environmental_context) ==
    LET confidence == adjusted(base_confidence, environmental_context)
        is_reliable == reliable(confidence)
    IN  [material_type |-> IF is_reliable THEN predicted_class ELSE "unknown",
         confidence |-> IF is_reliable THEN confidence ELSE ConfScale \div 10,
         is_reliable |-> is_reliable]

no_prediction == [material_type |-> "none", confidence |-> 0,
                  is_reliable |-> FALSE]

\* One whole call on an idle classifier; what the trained model answers for
\* the features is any class with any probability.
predict_material_call ==
    /\ mat.fn = "none"
    /\ \A w \in Workers : clf.pc[w] = "idle"
    /\ clf.calls < MaxPredictions
    /\ \E spectrum \in PredictSpectra :
       \E predicted_class \in TrainedClasses :
       \E base_confidence \in BaseConfidences :
       \E environmental_context \in Contexts :
          LET features == preprocess_spectrum(spectrum[1], spectrum[2])
          IN  mat' = [fn |-> "predict_material",
                      wavelengths |-> spectrum[1],
                      intensities |-> spectrum[2],
                      raised |-> features.raised,
                      predicted_class |-> predicted_class,
                      environmental_context |-> environmental_context,
                      adjusted |->
                          adjusted(base_confidence, environmental_context),
                      result |->
                          IF features.raised = "none"
                          THEN predict_material(predicted_class,
                                   base_confidence, environmental_context)
                          ELSE no_prediction]
    /\ clf' = [clf EXCEPT !.calls = @ + 1, !.is_trained = TRUE,
                          !.trainings = IF clf.is_trained THEN @ ELSE @ + 1]
    /\ UNCHANGED hub
    /\ UNCHANGED <<last_call, add_pc, observed_len, rad, pres, subs>>

\* ------------------------------------------------ lazy training, per thread
\* `if not self.is_trained:` read by worker thread w at the start of a call.
predict_material_enter(w) ==
    /\ clf.pc[w] = "idle"
    /\ clf.calls < MaxPredictions
    /\ clf' = [clf EXCEPT !.calls = @ + 1,
                          !.pc[w] = IF clf.is_trained THEN "predict"
                                    ELSE "train"]
    /\ UNCHANGED hub
    /\ UNCHANGED <<last_call, add_pc, observed_len, rad, mat, pres, subs>>

\* `self.train()` up to the fit of the scaler and of the classifier.
train_begin(w) ==
    /\ clf.pc[w] = "train"
    /\ clf' = [clf EXCEPT !.trainings = @ + 1, !.pc[w] = "fitted"]
    /\ UNCHANGED hub
    /\ UNCHANGED <<last_call, add_pc, observed_len, rad, mat, pres, subs>>

\* The last statement of train: `self.is_trained = True`.
train_end(w) ==
    /\ clf.pc[w] = "fitted"
    /\ clf' = [clf EXCEPT !.is_trained = TRUE, !.pc[w] = "predict"]
    /\ UNCHANGED hub
    /\ UNCHANGED <<last_call, add_pc, observed_len, rad, mat, pres, subs>>

\* The rest of predict_material; the thread goes back to the pool.
predict_material_return(w) ==
    /\ clf.pc[w] = "predict"
    /\ clf' = [clf EXCEPT !.pc[w] = "idle"]
    /\ UNCHANGED hub
    /\ UNCHANGED <<last_call, add_pc, observed_len, rad, mat, pres, subs>>

\* ------------------------------------------------------ preservation_service
\* Percentages are carried in hundredths, the resolution of `round(x, 2)`.
PercentScale == 100

\* A sensor reading is a float: a finite number, NaN, +inf or -inf.
finite(v) == [kind |-> "finite", v |-> v]

NaN == [kind |-> "nan", v |-> 0]

PosInf == [kind |-> "inf", v |-> 0]

NegInf == [kind |-> "-inf", v |-> 0]

NonFinite == {NaN, PosInf, NegInf}

\* The finite readings lie on both sides of every threshold of the table and
\* of every floor of the water formula.
Turbidities ==
    {finite(v) : v \in {0 - 5, 0, 10, 11, 50, 51, 80, 81, 100, 101, 150, 151,
                        250, 10001}} \cup NonFinite

Temperatures ==
    {finite(v) : v \in {0 - 5, 0, 20, 21, 25, 26, 30, 31, 400, 1001}}
        \cup NonFinite

TdsValues ==
    {finite(v) : v \in {0, 50, 51, 500, 501, 800, 801, 1000, 1001, 1500, 1501,
                        6000}} \cup NonFinite

SensorDatas == [turbidity : Turbidities, temperature : Temperatures,
                tds : TdsValues]

props(base, turb_thr, turb_pen, temp_thr, temp_pen, tds_thr, tds_pen) ==
    [base_survival |-> base,
     turbidity_threshold |-> turb_thr, turbidity_penalty |-> turb_pen,
     temperature_threshold |-> temp_thr, temperature_penalty |-> temp_pen,
     tds_threshold |-> tds_thr, tds_penalty |-> tds_pen]

material_database ==
    [wood       |-> props(20, 50, 10, 25, 5, 500, 5),
     paper      |-> props(15, 50, 15, 25, 5, 500, 5),
     fabric     |-> props(20, 50, 10, 25, 5, 500, 5),
     leather    |-> props(25, 50, 10, 25, 5, 500, 5),
     bone       |-> props(25, 50, 5, 25, 5, 500, 5),
     lead       |-> props(50, 80, 5, 30, 2, 1000, 2),
     copper     |-> props(45, 80, 5, 30, 2, 1000, 3),
     brass      |-> props(45, 80, 5, 30, 2, 1000, 3),
     tin        |-> props(40, 80, 5, 30, 2, 1000, 3),
     zinc       |-> props(35, 80, 5, 30, 2, 1000, 3),
     iron       |-> props(30, 50, 10, 30, 5, 800, 5),
     steel      |-> props(40, 50, 5, 30, 3, 800, 5),
     ceramic    |-> props(70, 100, 5, 1000, 0, 10000, 0),
     clay       |-> props(60, 100, 5, 1000, 0, 10000, 0),
     soft_stone |-> props(60, 100, 5, 1000, 0, 10000, 0),
     hard_stone |-> props(90, 150, 2, 1000, 0, 10000, 0),
     glass      |-> props(80, 100, 5, 1000, 0, 10000, 0),
     plastic    |-> props(75, 150, 2, 1000, 0, 10000, 0),
     rubber     |-> props(65, 150, 2, 1000, 0, 10000, 0),
     quartz     |-> props(95, 10000, 0, 10000, 0, 10000, 0),
     gold       |-> props(100, 10000, 0, 10000, 0, 10000, 0),
     silver     |-> props(95, 150, 2, 1000, 0, 1500, 2),
     platinum   |-> props(100, 10000, 0, 10000, 0, 10000, 0),
     porcelain  |-> props(90, 150, 2, 1000, 0, 10000, 0),
     marble     |-> props(85, 150, 2, 1000, 0, 10000, 0),
     bronze     |-> props(75, 80, 5, 30, 2, 1000, 3),
     asphalt    |-> props(65, 80, 5, 1000, 0, 1000, 2),
     ebonite    |-> props(65, 80, 5, 1000, 0, 1000, 2),
     fired_clay |-> props(80, 150, 2, 1000, 0, 10000, 0),
     obsidian   |-> props(95, 10000, 0, 10000, 0, 10000, 0)]

\* The keys in the order the dictionary is iterated.
material_keys ==
    <<"wood", "paper", "fabric", "leather", "bone", "lead", "copper", "brass",
      "tin", "zinc", "iron", "steel", "ceramic", "clay", "soft_stone",
      "hard_stone", "glass", "plastic", "rubber", "quartz", "gold", "silver",
      "platinum", "porcelain", "marble", "bronze", "asphalt", "ebonite",
      "fired_clay", "obsidian">>

\* A key the table does not hold.
Materials == DOMAIN material_database \cup {"amber"}

\* `if math.isnan(x) or math.isinf(x): x = default`
sanitised(reading, default) ==
    IF reading.kind = "finite" THEN reading.v ELSE default

clamp_from_above(x) == Min(100, x)

\* `max(0.0, min(100.0, preservation))`
clamp(x) == Max(0, Min(100, x))

calculate_material_preservation(material, sensor_data) ==
    IF material \notin DOMAIN material_database
    THEN 100 * PercentScale
    ELSE LET material_props == material_database[material]
             turbidity   == sanitised(sensor_data.turbidity, 0)
             temperature == sanitised(sensor_data.temperature, 20)
             tds         == sanitised(sensor_data.tds, 0)
             after_turbidity ==
                 IF turbidity > material_props.turbidity_threshold
                 THEN material_props.base_survival
                          - material_props.turbidity_penalty
                 ELSE material_props.base_survival
             after_temperature ==
                 IF temperature > material_props.temperature_threshold
                 THEN after_turbidity - material_props.temperature_penalty
                 ELSE after_turbidity
             preservation ==
                 IF tds > material_props.tds_threshold
                 THEN after_temperature - material_props.tds_penalty
                 ELSE after_temperature
         IN  PercentScale * clamp(preservation)

distance_from(value, floor) == Abs(value - floor)

\* `max(0, value - floor)`
above(value, floor) == Max(0, value - floor)

\* The impacts 0.5, 0.02 and 0.3 per unit are 50, 2 and 30 hundredths.
calculate_water_preservation(sensor_data) ==
    LET turbidity   == sanitised(sensor_data.turbidity, 0)
        tds         == sanitised(sensor_data.tds, 0)
        temperature == sanitised(sensor_data.temperature, 20)
        turbidity_impact == above(turbidity, 10) * 50
        tds_impact       == above(tds, 50) * 2
        temp_impact      == above(temperature, 20) * 30
        total_impact     == turbidity_impact + tds_impact + temp_impact
    IN  Max(0, 100 * PercentScale - total_impact)

\* `round(sum(values) / len(values), 2)` of values held in hundredths.
rounded_mean(values) == (2 * Sum(values) + Len(values)) \div (2 * Len(values))

final_preservation_with_water(material_preservations, water_preservation) ==
    rounded_mean(Append(material_preservations, water_preservation))

final_preservation(material_preservations, water_preservation) ==
    rounded_mean(material_preservations)

calculate_preservation_report(sensor_data) ==
    LET materials ==
            [material_key \in DOMAIN material_database |->
                calculate_material_preservation(material_key, sensor_data)]
        material_preservations ==
            [i \in 1..Len(material_keys) |-> materials[material_keys[i]]]
        water_preservation == calculate_water_preservation(sensor_data)
    IN  [water_preservation |-> water_preservation,
         materials |-> materials,
         final_preservation |->
             final_preservation(material_preservations, water_preservation)]

calculate_material_preservation_call ==
    /\ pres.fn = "none"
    /\ \E material \in Materials : \E sensor_data \in SensorDatas :
          pres' = [fn |-> "calculate_material_preservation",
                   material |-> material, sensor_data |-> sensor_data,
                   result |->
                       calculate_material_preservation(material, sensor_data)]
    /\ UNCHANGED hub
    /\ UNCHANGED <<last_call, add_pc, observed_len, rad, clf, mat, subs>>

calculate_preservation_report_call ==
    /\ pres.fn = "none"
    /\ \E sensor_data \in SensorDatas :
          pres' = [fn |-> "calculate_preservation_report",
                   sensor_data |-> sensor_data,
                   report |-> calculate_preservation_report(sensor_data)]
    /\ UNCHANGED hub
    /\ UNCHANGED <<last_call, add_pc, observed_len, rad, clf, mat, subs>>

\* The order of the floats: -inf below every finite number, +inf above, NaN
\* comparable with nothing.
float_le(a, b) ==
    \/ a.kind = "-inf" /\ b.kind # "nan"
    \/ b.kind = "inf" /\ a.kind # "nan"
    \/ a.kind = "finite" /\ b.kind = "finite" /\ a.v <= b.v

\* Two calls whose readings differ in one field only, the second one higher.
calculate_water_preservation_call ==
    /\ pres.fn = "none"
    /\ \E lower \in SensorDatas :
       \E field \in {"turbidity", "temperature", "tds"} :
       \E raised \in (CASE field = "turbidity" -> Turbidities
                        [] field = "temperature" -> Temperatures
                        [] OTHER -> TdsValues) :
          /\ float_le(lower[field], raised)
          /\ lower[field] # raised
          /\ pres' = [fn |-> "calculate_water_preservation",
                      field |-> field,
                      lower |-> lower,
                      higher |-> [lower EXCEPT ![field] = raised],
                      lower_result |-> calculate_water_preservation(lower),
                      higher_result |->
                          calculate_water_preservation(
                              [lower EXCEPT ![field] = raised])]
    /\ UNCHANGED hub
    /\ UNCHANGED <<last_call, add_pc, observed_len, rad, clf, mat, subs>>

\* ------------------------------------------------- list-based broadcasters
\* NotificationsService and the websocket-server's ConnectionManager keep
\* their sockets in a list and broadcast with the same loop.
registered_in(websockets) == {websockets[i] : i \in 1..Len(websockets)}

\* `if websocket in self.websockets: self.websockets.remove(websocket)`:
\* list.remove takes out the first occurrence.
remove_websocket(websockets, websocket) ==
    IF websocket \in registered_in(websockets)
    THEN LET i == CHOOSE i \in 1..Len(websockets) :
                      /\ websockets[i] = websocket
                      /\ \A j \in 1..(i - 1) : websockets[j] # websocket
         IN  SubSeq(websockets, 1, i - 1)
                 \o SubSeq(websockets, i + 1, Len(websockets))
    ELSE websockets

\* The /ws endpoint registers the socket it has just accepted.
add_websocket(c) ==
    /\ c \notin registered_in(subs.websockets)
    /\ subs' = [subs EXCEPT !.websockets = Append(@, c),
                            !.undisturbed = @ /\ subs.pc \in {"idle", "done"}]
    /\ UNCHANGED hub
    /\ UNCHANGED <<last_call, add_pc, observed_len, rad, clf, mat, pres>>

\* The /ws endpoint of a socket that has disconnected.
remove_websocket_call(c) ==
    /\ c \in registered_in(subs.websockets)
    /\ subs' = [subs EXCEPT !.websockets = remove_websocket(@, c),
                            !.undisturbed = @ /\ subs.pc \in {"idle", "done"}]
    /\ UNCHANGED hub
    /\ UNCHANGED <<last_call, add_pc, observed_len, rad, clf, mat, pres>>

\* A broadcast starts: `for websocket in self.websockets` makes an iterator
\* at index 0 over the list itself. The sockets in `broken` are those whose
\* send_text raises; `undisturbed` says that no endpoint has added or removed
\* a socket since the broadcast began.
broadcast_notification ==
    /\ subs.pc \in {"idle", "done"}
    /\ \E broken \in SUBSET Conns :
          subs' = [subs EXCEPT !.pc = "next", !.idx = 0, !.cur = 0,
                               !.broken = broken,
                               !.registered = registered_in(subs.websockets),
                               !.delivered = {}, !.undisturbed = TRUE]
    /\ UNCHANGED hub
    /\ UNCHANGED <<last_call, add_pc, observed_len, rad, clf, mat, pres>>

\* The iterator's next(): the element at its index in the list as it is now,
\* or the end of the loop; then `await websocket.send_text(message)` begins.
broadcast_notification_next ==
    /\ subs.pc = "next"
    /\ subs' = IF subs.idx < Len(subs.websockets)
               THEN [subs EXCEPT !.cur = subs.websockets[subs.idx + 1],
                                 !.idx = @ + 1, !.pc = "send"]
               ELSE [subs EXCEPT !.pc = "done", !.cur = 0]
    /\ UNCHANGED hub
    /\ UNCHANGED <<last_call, add_pc, observed_len, rad, clf, mat, pres>>

\* The send returns, or raises and the bare except removes the socket.
broadcast_notification_sent ==
    /\ subs.pc = "send"
    /\ subs' = IF subs.cur \in subs.broken
               THEN [subs EXCEPT !.websockets = remove_websocket(@, subs.cur),
                                 !.pc = "next"]
               ELSE [subs EXCEPT !.delivered = @ \cup {subs.cur},
                                 !.pc = "next"]
    /\ UNCHANGED hub
    /\ UNCHANGED <<last_call, add_pc, observed_len, rad, clf, mat, pres>>

\* ------------------------------------------------------------ specifications
Sends ==
    \E m \in Msgs : \E outcome \in {"ok", "WebSocketDisconnect", "Exception"} :
        broadcast_resume(m, outcome)

Subscribers ==
    \/ \E c \in Conns : websocket_endpoint(c)
    \/ \E c \in Conns : disconnect(c)

Streaming ==
    \/ start_broadcasting
    \/ stop_broadcasting
    \/ stop_broadcasting_resume
    \/ \E t \in Tasks : broadcast_loop(t)
    \/ simulate_sensor_stream

ThreadWait ==
    \/ thread_result_ready
    \/ thread_timeout

Dispatch ==
    \/ send_sensor_data_from_thread
    \/ \E m \in Msgs : run_scheduled(m)
    \/ tick
    \/ ThreadWait
    \/ loop_close

\* The whole program.
Next ==
    \/ Subscribers
    \/ receive_esp32_data
    \/ Sends
    \/ Streaming
    \/ Dispatch

Spec == Init /\ [][Next]_vars

\* Subscribers and the ESP32 routes' direct broadcasts, until the server stops.
NextBroadcast ==
    \/ Subscribers
    \/ receive_esp32_data
    \/ Sends
    \/ loop_close

SpecBroadcast == Init /\ [][NextBroadcast]_vars

\* Subscribers, start/stop and the simulation stream.
NextStream ==
    \/ Subscribers
    \/ Sends
    \/ Streaming

SpecStream == Init /\ [][NextStream]_vars

\* The event loop runs a task that is ready: the simulation task and a
\* broadcast at its await go on.  Nothing makes a client connect or leave,
\* and nothing in the program awaits start_broadcasting.
FairStream == SpecStream /\ WF_vars(simulate_sensor_stream) /\ WF_vars(Sends)

\* Subscribers and the worker thread's dispatch.
NextThread ==
    \/ Subscribers
    \/ Sends
    \/ Dispatch

SpecThread == Init /\ [][NextThread]_vars

\* The worker thread is an operating-system thread: it is scheduled, and its
\* clock advances, whatever the event loop does. Nothing is assumed of the loop.
FairThread == SpecThread /\ WF_vars(tick) /\ WF_vars(ThreadWait)

\* The ring buffer alone.
NextBuffer == add_to_buffer_call

SpecBuffer == Init /\ [][NextBuffer]_vars

\* The ring buffer, its writer and readers in the loop and in other threads.
NextBufferReaders ==
    \/ add_to_buffer_append
    \/ add_to_buffer_evict
    \/ task_reads_buffer
    \/ thread_reads_buffer

SpecBufferReaders == Init /\ [][NextBufferReaders]_vars

\* Calls of connect and disconnect on any socket, with direct broadcasts.
NextRegistry ==
    \/ \E c \in Conns : connect_call(c)
    \/ \E c \in Conns : disconnect_call(c)
    \/ receive_esp32_data
    \/ Sends

SpecRegistry == Init /\ [][NextRegistry]_vars

\* Calls of disconnect on any socket while the simulation streams.
NextUnregister ==
    \/ \E c \in Conns : websocket_endpoint(c)
    \/ \E c \in Conns : disconnect_call(c)
    \/ start_broadcasting
    \/ simulate_sensor_stream
    \/ Sends

SpecUnregister == Init /\ [][NextUnregister]_vars

\* The anomaly classifier over all amplitudes, widths and neighbourhoods.
NextClassify == classify_anomaly_call

SpecClassify == Init /\ [][NextClassify]_vars

\* The width estimate over all signals and peak positions.
NextWidth ==
    \/ estimate_signal_width_call
    \/ left_edge_step
    \/ right_edge_step

SpecWidth == Init /\ [][NextWidth]_vars

\* A call that has started keeps running: nothing in it waits for anything.
FairWidth == SpecWidth /\ WF_vars(left_edge_step) /\ WF_vars(right_edge_step)

\* The radar engine's functions of a depth profile.
NextProfile ==
    \/ preprocess_signal_call
    \/ analyze_depth_profile_call
    \/ detect_anomalies_call

SpecProfile == Init /\ [][NextProfile]_vars

\* The feature extraction over all short spectra.
NextSpectrum == preprocess_spectrum_call

SpecSpectrum == Init /\ [][NextSpectrum]_vars

\* The preservation percentages over all readings.
NextPreservation ==
    \/ calculate_material_preservation_call
    \/ calculate_preservation_report_call
    \/ calculate_water_preservation_call

SpecPreservation == Init /\ [][NextPreservation]_vars

\* One prediction, from the spectrum to the reported label.
NextPredict == predict_material_call

SpecPredict == Init /\ [][NextPredict]_vars

\* First predictions on the worker threads of the pool.
NextTraining ==
    \E w \in Workers :
        \/ predict_material_enter(w)
        \/ train_begin(w)
        \/ train_end(w)
        \/ predict_material_return(w)

SpecTraining == Init /\ [][NextTraining]_vars

\* Notifications broadcast while sockets come and go.
NextNotify ==
    \/ \E c \in Conns : add_websocket(c)
    \/ \E c \in Conns : remove_websocket_call(c)
    \/ broadcast_notification
    \/ broadcast_notification_next
    \/ broadcast_notification_sent

SpecNotify == Init /\ [][NextNotify]_vars

\* ==================================================================== claims
Finishing(m) == bc[m].st = "sending" /\ bc'[m].st = "done"

\* C1: a broadcast that walked n connections of which k raised on send ends
\* with every one of the n tried once, each of the n-k others having received
\* the message exactly once and the k failing ones none, and its clean-up
\* removes exactly the k failing connections from active_connections (so with
\* no connect or disconnect in between, exactly the n-k others are left).
C1_BroadcastIsolatesFailures ==
    [][\A m \in Msgs : Finishing(m) =>
          LET snap == bc[m].snap
              failed == bc'[m].failed
          IN  /\ failed \subseteq snap
              /\ \A c \in snap : attempts'[<<c, m>>] = 1
              /\ \A c \in snap : received'[<<c, m>>] = IF c \in failed THEN 0 ELSE 1
              /\ active_connections' = active_connections \ failed
              /\ bc'[m].successful_sends = Cardinality(snap) - Cardinality(failed)
              /\ active_connections = snap =>
                    /\ active_connections' = snap \ failed
                    /\ Cardinality(active_connections') =
                          Cardinality(snap) - Cardinality(failed)]_vars

C1_Witness ==
    \E m \in Msgs :
        /\ bc[m].st = "done"
        /\ Cardinality(bc[m].snap) >= 2
        /\ bc[m].failed # {}
        /\ \E c \in bc[m].snap \ bc[m].failed :
              received[<<c, m>>] = 1 /\ c \in active_connections
        /\ bc[m].failed \cap active_connections = {}

\* C2 (as claimed): every completed broadcast that delivered a payload has put
\* that payload into message_buffer, whichever entry point asked for it.
C2_EveryBroadcastBuffered ==
    \A m \in Msgs :
        (bc[m].st = "done" /\ bc[m].successful_sends >= 1) =>
            \E i \in 1..Len(message_buffer) : message_buffer[i] = m

\* C3: after any number of add_to_buffer calls the buffer holds at most
\* buffer_size entries, which are the last min(appends, buffer_size) payloads in
\* the order they came; once more than buffer_size were appended the first
\* payload is gone.
C3_BufferKeepsNewest ==
    LET n == Len(appended)
        k == Min(n, buffer_size)
    IN  /\ Len(message_buffer) <= buffer_size
        /\ message_buffer = SubSeq(appended, n - k + 1, n)
        /\ n > buffer_size =>
              \A i \in 1..Len(message_buffer) : message_buffer[i] # appended[1]

C3_Witness ==
    /\ Len(appended) = buffer_size + 1
    /\ Len(message_buffer) = buffer_size
    /\ message_buffer[1] = appended[2]
    /\ Last(message_buffer) = Last(appended)

\* C4 (as claimed): send_sensor_data_from_thread never lets an exception out
\* to its caller.
C4_ThreadCallNeverRaises ==
    \A m \in Msgs : thread_result[m] # "raised"

\* C5: a thread blocked in send_sensor_data_from_thread always gets out of it,
\* whether or not the loop ever runs the broadcast or a send ever completes.
C5_ThreadCallReturns == (thr.pc = "waiting") ~> (thr.pc = "idle")

C5_Witness ==
    \E m \in Msgs :
        /\ thread_result[m] = "timeout"
        /\ thr.pc = "idle"
        /\ bc[m].st \in {"scheduled", "sending"}

\* C6 (as claimed): once a dispatch has failed (no loop, or the wait timed
\* out) and the call has returned, its payload reaches no subscriber and the
\* active set and the buffer are not changed on its behalf.
C6_FailedDispatchHasNoEffect ==
    [][\A m \in Msgs : thread_result[m] \in {"no_loop", "timeout"} =>
          /\ \A c \in Conns : attempts'[<<c, m>>] = attempts[<<c, m>>]
          /\ \A c \in Conns : received'[<<c, m>>] = received[<<c, m>>]
          /\ bc'[m].st = bc[m].st]_vars

\* C7 (as claimed): from the return of stop_broadcasting until the next
\* start_broadcasting, no send of a simulation frame is started.
C7_NoSendAfterStop ==
    [][stop_returned =>
          \A m \in Msgs : \A c \in Conns :
              bc'[m].via = "sensor" => attempts'[<<c, m>>] = attempts[<<c, m>>]]_vars

\* C8: at most one _broadcast_loop task is alive at any time; while the hub is
\* broadcasting or still holds a task no new task is created; while it is not
\* broadcasting no task gets cancelled.
C8_StartStopIdempotent ==
    [][/\ Cardinality(AliveTasks) <= 1
       /\ Cardinality(AliveTasks') <= 1
       /\ (is_broadcasting \/ broadcast_task # NoTask) => CreatedTasks' = CreatedTasks
       /\ ~is_broadcasting =>
             \A t \in Tasks : tasks'[t] = "cancelling" => tasks[t] = "cancelling"]_vars

C8_Witness ==
    /\ Cardinality(CreatedTasks) >= 2
    /\ Cardinality(AliveTasks) = 1
    /\ is_broadcasting
    /\ broadcast_task \in AliveTasks

\* C9: a broadcast never raises, and when it ends every connection that was
\* registered from its start to its end and whose send did not raise has
\* received the message exactly once, whatever connect and disconnect calls ran
\* at its await points.
C9_BroadcastSafeUnderMutation ==
    [][\A m \in Msgs :
          /\ bc'[m].st # "raised"
          /\ Finishing(m) =>
                \A c \in bc[m].snap \cap active_connections :
                    c \notin bc'[m].failed => received'[<<c, m>>] = 1]_vars

C9_Witness ==
    \E m \in Msgs :
        /\ bc[m].st = "sending"
        /\ bc[m].failed = {}
        /\ active_connections # bc[m].snap
        /\ bc[m].successful_sends >= 1
        /\ bc[m].cur # {}

\* C10 (as claimed): a send is started on a connection only while that
\* connection is in active_connections.
C10_SendOnlyToMembers ==
    [][\A m \in Msgs : \A c \in Conns :
          attempts'[<<c, m>>] > attempts[<<c, m>>] => c \in active_connections]_vars

\* C11 (as claimed): no reader, in the loop or in another thread, ever sees
\* message_buffer with more than buffer_size entries.
C11_ReadersNeverSeeOverfull == observed_len <= buffer_size

Recorded(op) == last_call' # last_call /\ last_call'.op = op

\* C12: a connect call for a connection that is already registered leaves
\* active_connections as it was (one membership, whether or not accept raised);
\* a connect call that returns leaves the connection registered; no connection
\* is sent a message twice; and one disconnect call leaves it unregistered.
C12_ConnectIdempotent ==
    [][/\ (Recorded("connect") /\ last_call'.member) =>
             active_connections' = active_connections
       /\ (Recorded("connect") /\ ~last_call'.raised) =>
             last_call'.conn \in active_connections'
       /\ Recorded("disconnect") => last_call'.conn \notin active_connections'
       /\ \A c \in Conns : \A m \in Msgs :
             attempts'[<<c, m>>] <= 1 /\ received'[<<c, m>>] <= 1]_vars

C12_Witness ==
    /\ last_call.op = "connect"
    /\ last_call.member
    /\ ~last_call.raised
    /\ last_call.conn \in active_connections
    /\ Cardinality(active_connections) >= 2
    /\ \E m \in Msgs : bc[m].st = "sending" /\ last_call.conn \in bc[m].todo

\* C13: a disconnect call never raises, and one for a connection that is not
\* registered changes neither active_connections nor message_buffer nor
\* is_broadcasting.
C13_DisconnectSafe ==
    [][Recorded("disconnect") =>
          /\ ~last_call'.raised
          /\ ~last_call'.member =>
                /\ active_connections' = active_connections
                /\ message_buffer' = message_buffer
                /\ is_broadcasting' = is_broadcasting]_vars

C13_Witness ==
    /\ last_call.op = "disconnect"
    /\ ~last_call.member
    /\ ~last_call.raised
    /\ active_connections # {}
    /\ message_buffer # <<>>
    /\ is_broadcasting

Classified == rad.fn = "classify_anomaly"

\* C14 (as claimed): the confidence classify_anomaly returns lies in [0, 1]
\* for every amplitude, width and neighbourhood.
C14_ConfidenceInUnitRange ==
    Classified => rad.confidence >= 0 /\ rad.confidence <= ConfScale

\* C15: an amplitude of magnitude above 0.7 with a width below 5 is classified
\* metal with confidence min(0.95, |a|), whatever the neighbourhood is.
C15_StrongNarrowIsMetal ==
    (/\ Classified
     /\ 10 * rad.amplitude > 7 * AmpScale \/ 10 * rad.amplitude < 0 - 7 * AmpScale
     /\ rad.width < 5) =>
        /\ rad.type = "metal"
        /\ \/ rad.confidence * AmpScale = rad.amplitude * ConfScale
           \/ rad.confidence * AmpScale = (0 - rad.amplitude) * ConfScale
           \/ rad.confidence * 100 = 95 * ConfScale
        /\ rad.confidence * 100 <= 95 * ConfScale
        /\ rad.confidence * AmpScale <= rad.amplitude * ConfScale
              \/ rad.confidence * AmpScale <= (0 - rad.amplitude) * ConfScale

C15_Witness ==
    /\ Classified
    /\ rad.amplitude < 0
    /\ 10 * rad.amplitude < 0 - 7 * AmpScale
    /\ 100 * rad.amplitude > 0 - 95 * AmpScale
    /\ rad.width = 4
    /\ rad.n > 0
    /\ rad.quiet = rad.n
    /\ rad.type = "metal"

\* C16 (as claimed): an amplitude of magnitude below 0.2 whose (non-empty)
\* neighbourhood has at least 70% of its samples below 0.1 in magnitude is
\* classified void with confidence 0.7.
C16_VoidAtSeventyPercent ==
    (/\ Classified
     /\ 10 * rad.amplitude < 2 * AmpScale
     /\ 10 * rad.amplitude > 0 - 2 * AmpScale
     /\ rad.n > 0
     /\ 10 * rad.quiet >= 7 * rad.n) =>
        rad.type = "void" /\ rad.confidence * 100 = 70 * ConfScale

\* C16 (amended): with an amplitude of magnitude below 0.2, the result is void
\* with confidence 0.7 exactly when MORE than 70% of the neighbourhood is below
\* 0.1 in magnitude; at exactly 70% (and below) it is unknown.
C16_VoidAboveSeventyPercent ==
    (/\ Classified
     /\ 10 * rad.amplitude < 2 * AmpScale
     /\ 10 * rad.amplitude > 0 - 2 * AmpScale) =>
        IF 10 * rad.quiet > 7 * rad.n
        THEN rad.type = "void" /\ rad.confidence * 100 = 70 * ConfScale
        ELSE rad.type = "unknown"

C16_Witness ==
    /\ Classified
    /\ rad.amplitude # 0
    /\ 10 * rad.amplitude < 2 * AmpScale
    /\ 10 * rad.amplitude > 0 - 2 * AmpScale
    /\ rad.n = 10
    /\ rad.quiet = 8
    /\ rad.type = "void"

Measuring == rad.fn = "estimate_signal_width" /\ rad.pc # "done"

Measured == rad.fn = "estimate_signal_width" /\ rad.pc = "done"

\* C17: every call of estimate_signal_width returns, and the width it returns
\* is at least 0 and at most the length of the signal.
C17_WidthBoundedAndTerminates ==
    /\ [](Measured => rad.width >= 0 /\ rad.width <= Len(rad.signal))
    /\ Measuring ~> Measured

C17_Witness ==
    /\ Measured
    /\ Len(rad.signal) >= 4
    /\ rad.peak_idx \in 1..(Len(rad.signal) - 2)
    /\ rad.left_edge = 0
    /\ rad.right_edge = Len(rad.signal) - 1
    /\ rad.width = Len(rad.signal) - 1

\* C18: for a profile of at most 3 samples preprocess_signal returns without
\* raising and every sample of its output is the input sample at that place.
C18_ShortProfileUnmodified ==
    (rad.fn = "preprocess_signal" /\ Len(rad.profile) <= 3) =>
        /\ rad.raised = "none"
        /\ Len(rad.samples) = Len(rad.profile)
        /\ \A i \in 1..Len(rad.profile) :
              rad.samples[i] = SmoothScale * rad.profile[i]

C18_Witness ==
    /\ rad.fn = "preprocess_signal"
    /\ Len(rad.profile) = 3
    /\ rad.profile[1] # rad.profile[2]
    /\ rad.profile[2] # rad.profile[3]
    /\ rad.samples = as_is(rad.profile)

Analyzed == rad.fn = "analyze_depth_profile" /\ rad.raised = "none"

\* C19: the layers analyze_depth_profile returns are in depth order and leave
\* no gap: the first starts at depth 0, every other one starts where the one
\* before it ends, and the last one ends at the last sample of the profile.
C19_LayersPartitionProfile ==
    Analyzed =>
        LET layers == rad.layers
        IN  /\ layers # <<>>
            /\ layers[1].start_depth = 0
            /\ \A k \in 1..Len(layers) :
                  layers[k].start_depth <= layers[k].end_depth
            /\ \A k \in 1..(Len(layers) - 1) :
                  layers[k + 1].start_depth = layers[k].end_depth
            /\ layers[Len(layers)].end_depth = Len(rad.profile) - 1

C19_Witness ==
    /\ Analyzed
    /\ Len(rad.layers) = 2
    /\ rad.layers[1].end_depth = 6
    /\ rad.layers[2].start_depth = 6
    /\ rad.layers[2].end_depth = 7

\* C20 (as claimed): for a depth profile of 0 or 1 samples detect_anomalies
\* returns an empty list and analyze_depth_profile returns a layer result,
\* neither of them raising.
C20_ShortProfileNeverRaises ==
    (/\ rad.fn \in {"detect_anomalies", "analyze_depth_profile"}
     /\ Len(rad.profile) <= 1) =>
        /\ rad.raised = "none"
        /\ rad.fn = "detect_anomalies" => rad.anomalies = <<>>

\* C21 (as claimed): a spectrum with wavelength and intensity lists of
\* different (non-zero) lengths gets a feature vector back; nothing is raised.
C21_MismatchedSpectrumHandled ==
    (/\ mat.fn = "preprocess_spectrum"
     /\ mat.wavelengths # <<>>
     /\ mat.intensities # <<>>
     /\ Len(mat.wavelengths) # Len(mat.intensities)) =>
        mat.raised = "none"

\* C22: calculate_material_preservation returns a percentage between 0 and 100
\* for every material key and every turbidity, temperature and TDS reading,
\* NaN and the infinities included, and for a material whose penalties add up
\* to more than its base_survival.
C22_MaterialPreservationInRange ==
    pres.fn = "calculate_material_preservation" =>
        /\ pres.result >= 0
        /\ pres.result <= 100 * PercentScale

\* Paper with all three thresholds exceeded: 15 - 15 - 5 - 5 is below zero.
C22_Witness ==
    /\ pres.fn = "calculate_material_preservation"
    /\ pres.material = "paper"
    /\ pres.sensor_data = [turbidity |-> finite(51),
                           temperature |-> finite(26), tds |-> finite(501)]
    /\ pres.result = 0

\* The sum of the percentages in a report's materials map.
MaterialsSum(report) ==
    Sum([i \in 1..Len(material_keys) |-> report.materials[material_keys[i]]])

\* C23: in every report of calculate_preservation_report, final_preservation
\* is the unweighted arithmetic mean of the 30 percentages of the report's
\* materials map, to within half a hundredth (the two-decimal rounding).
C23_FinalIsMeanOfMaterials ==
    pres.fn = "calculate_preservation_report" =>
        LET count == Cardinality(DOMAIN pres.report.materials)
        IN  /\ count = 30
            /\ 2 * Abs(count * pres.report.final_preservation
                           - MaterialsSum(pres.report)) <= count

\* Clear cold water: the 30 values add up to 1835, the mean 61.1666... is
\* reported as 61.17.
C23_Witness ==
    /\ pres.fn = "calculate_preservation_report"
    /\ pres.sensor_data = [turbidity |-> finite(0), temperature |-> finite(0),
                           tds |-> finite(0)]
    /\ MaterialsSum(pres.report) = 1835 * PercentScale
    /\ pres.report.final_preservation = 6117

\* C24 (as claimed): raising any one of turbidity, TDS and temperature, the
\* other two held fixed, never raises calculate_water_preservation.
C24_WaterNeverRisesWithReading ==
    pres.fn = "calculate_water_preservation" =>
        pres.higher_result <= pres.lower_result

\* C24 (amended): raising any one of the three readings from one finite value
\* to a higher finite value never raises calculate_water_preservation.
C24_WaterNeverRisesWithFiniteReading ==
    (/\ pres.fn = "calculate_water_preservation"
     /\ pres.lower[pres.field].kind = "finite"
     /\ pres.higher[pres.field].kind = "finite") =>
        pres.higher_result <= pres.lower_result

\* Turbidity raised from 11 to 50 with TDS 51 and 21 degrees: 99.18 falls
\* to 79.68.
C24_Witness ==
    /\ pres.fn = "calculate_water_preservation"
    /\ pres.field = "turbidity"
    /\ pres.lower = [turbidity |-> finite(11), temperature |-> finite(21),
                     tds |-> finite(51)]
    /\ pres.higher.turbidity = finite(50)
    /\ pres.lower_result = 9918
    /\ pres.higher_result = 7968

\* C25: predict_material reports 'unknown' with confidence exactly 0.1 and
\* is_reliable false whenever the context-adjusted confidence is at most 0.6,
\* whatever class the model predicted; it reports a trained class label only
\* when the adjusted confidence is above 0.6.
C25_UnreliableIsUnknown ==
    (mat.fn = "predict_material" /\ mat.raised = "none") =>
        /\ 10 * mat.adjusted <= 6 * ConfScale =>
              /\ mat.result.material_type = "unknown"
              /\ 10 * mat.result.confidence = ConfScale
              /\ ~mat.result.is_reliable
        /\ mat.result.material_type \in TrainedClasses =>
              10 * mat.adjusted > 6 * ConfScale

\* A prediction of 0.7 for metal at 51 degrees is adjusted to exactly 0.6.
C25_Witness ==
    /\ mat.fn = "predict_material"
    /\ mat.raised = "none"
    /\ mat.predicted_class = "metal"
    /\ mat.environmental_context.keys = {"temperature"}
    /\ mat.environmental_context.temperature = 51
    /\ 10 * mat.adjusted = 6 * ConfScale
    /\ mat.result = [material_type |-> "unknown",
                     confidence |-> ConfScale \div 10, is_reliable |-> FALSE]

\* C26 (as claimed): the lazy training runs at most once per classifier
\* instance, also when first predictions run concurrently on worker threads.
C26_TrainedAtMostOnce == clf.trainings <= 1

\* C27 (as claimed): in every reachable state of the ConnectionManager, the
\* states seen while stop_broadcasting is suspended at its await included,
\* is_broadcasting is true exactly when broadcast_task is not None.
C27_FlagIffTask == is_broadcasting <=> (broadcast_task # NoTask)

\* C28 (as claimed): when a subscriber connects to /ws while the hub is not
\* broadcasting (the endpoint has just created the simulation task, on a hub
\* that was never started before), the hub enters the broadcasting state, so
\* that the stream runs and feeds the subscriber, unless the subscriber
\* leaves first.
C28_ConnectStartsStream ==
    \A c \in Conns :
        (/\ c \in active_connections
         /\ ~is_broadcasting
         /\ sim = "ready"
         /\ CreatedTasks = {})
            ~> (is_broadcasting \/ c \notin active_connections)

\* C29 (as claimed): a finished broadcast over the list, during which no
\* endpoint touched the list, has delivered the message to every registered
\* websocket whose send succeeds; removing a failed websocket during the loop
\* makes it skip no other one.
C29_ListBroadcastSkipsNone ==
    (subs.pc = "done" /\ subs.undisturbed) =>
        \A c \in subs.registered :
            c \notin subs.broken => c \in subs.delivered

\* C30 (as claimed): every layer returned by analyze_depth_profile, the final
\* one included, has thickness = end_depth - start_depth.
C30_ThicknessIsExtent ==
    Analyzed =>
        \A k \in 1..Len(rad.layers) :
            rad.layers[k].thickness
                = rad.layers[k].end_depth - rad.layers[k].start_depth

====
